---- MODULE Spec2Model ----
(***************************************************************************)
(* Juleklapp Losverteilung: the WebSocket server that registers            *)
(* participants, keeps their sessions, draws a constrained derangement     *)
(* and delivers every participant's target.                                *)
(*                                                                         *)
(* Strings are sequences of one-character strings, so that trim(),         *)
(* toLowerCase(), length and localeCompare() are computed, not assumed.    *)
(***************************************************************************)
EXTENDS Integers, Sequences, FiniteSets, TLC

\* ------------------------------------------------------------------ bounds
\* Sockets the server holds at once, per role and not yet closed.
MaxMasters == 1
MaxParticipants == 2
MaxClosing == 1
\* Session ids in existence, connections accepted, names claimed and draws
\* committed in one run of the general specification ...
MaxTokens == 2
MaxConnects == 3
MaxClaims == 4
MaxDraws == 2
\* ... and of the scenario specification, whose inputs are the names and the
\* constraints of the documented scenarios.
ScenarioTokens == 3
ScenarioConnects == 4
ScenarioClaims == 3
ScenarioDraws == 1
\* ... and of the reconnect specification, which has the same inputs and
\* lets a participant come back twice and the observer draw again.
ReconnectTokens == 2
ReconnectConnects == 5
ReconnectClaims == 3
ReconnectDraws == 2
\* ... and of the name-length specification, whose names are as long as the
\* limit, or longer.
LengthTokens == 2
LengthConnects == 3
LengthClaims == 3
\* ... and of the email specification, which follows every sendEmail() call
\* of a draw to its outcome.
MailTokens == 2
MailConnects == 3
MailClaims == 3
MailDraws == 2
\* ... and of the frame specification, whose messages are the frames that
\* are no command.
FrameTokens == 2
FrameConnects == 3
FrameClaims == 2
\* The longest list of names the solver specification passes.
MaxSolverNames == 3

\* ------------------------------------------------------- program constants
MaxNameLength == 40
MaxAttempts == 1000

\* ----------------------------------------------------------------- strings
\* JavaScript null (distinct from every string: "NULL" is no character).
Null == <<"NULL">>

\* JavaScript truthiness of a string-or-null value: null and "" are falsy.
Truthy(s) == s # Null /\ s # <<>>

\* sessionData?.name || null
OrNull(s) == IF Truthy(s) THEN s ELSE Null

UpperAlphabet ==
  <<"A","B","C","D","E","F","G","H","I","J","K","L","M",
    "N","O","P","Q","R","S","T","U","V","W","X","Y","Z">>

LowerAlphabet ==
  <<"a","b","c","d","e","f","g","h","i","j","k","l","m",
    "n","o","p","q","r","s","t","u","v","w","x","y","z">>

\* The characters that occur in the names, addresses and keys of the model.
Chars ==
  { UpperAlphabet[i] : i \in 1..Len(UpperAlphabet) }
    \cup { LowerAlphabet[i] : i \in 1..Len(LowerAlphabet) }
    \cup { " ", "@", ".", "|" }

\* The lower-case form of every character: letters A-Z map to a-z.
LowerTable ==
  [c \in Chars |->
     IF \E i \in 1..Len(UpperAlphabet) : UpperAlphabet[i] = c
     THEN LowerAlphabet[CHOOSE i \in 1..Len(UpperAlphabet) : UpperAlphabet[i] = c]
     ELSE c]

LowerChar(c) == LowerTable[c]

\* String.prototype.toLowerCase
toLowerCase(s) == [i \in 1..Len(s) |-> LowerChar(s[i])]

IsSpace(c) == c = " "

RECURSIVE TrimStart(_)
TrimStart(s) ==
  IF s = <<>> THEN s
  ELSE IF IsSpace(Head(s)) THEN TrimStart(Tail(s)) ELSE s

RECURSIVE TrimEnd(_)
TrimEnd(s) ==
  IF s = <<>> THEN s
  ELSE IF IsSpace(s[Len(s)]) THEN TrimEnd(SubSeq(s, 1, Len(s) - 1)) ELSE s

\* String.prototype.trim
trim(s) == TrimEnd(TrimStart(s))

\* Collation rank of a character at the primary level of the 'de' locale:
\* the space sorts before the letters, letters sort alphabetically whatever
\* their case, anything else after them.
RankTable ==
  [c \in Chars |->
     IF c = " " THEN 0
     ELSE IF \E i \in 1..Len(LowerAlphabet) : LowerAlphabet[i] = LowerTable[c]
          THEN CHOOSE i \in 1..Len(LowerAlphabet) :
                 LowerAlphabet[i] = LowerTable[c]
          ELSE Len(LowerAlphabet) + 1]

Rank(c) == RankTable[c]

\* Lexicographic comparison of two strings by a key on characters: -1, 0, 1.
RECURSIVE ComparePrimary(_, _)
ComparePrimary(a, b) ==
  IF a = <<>> /\ b = <<>> THEN 0
  ELSE IF a = <<>> THEN -1
  ELSE IF b = <<>> THEN 1
  ELSE IF Rank(Head(a)) < Rank(Head(b)) THEN -1
  ELSE IF Rank(Head(a)) > Rank(Head(b)) THEN 1
  ELSE ComparePrimary(Tail(a), Tail(b))

\* Tertiary level: at the first position where the case differs, the lower
\* case letter sorts first. Only called on strings equal at the primary level.
RECURSIVE CompareCase(_, _)
CompareCase(a, b) ==
  IF a = <<>> \/ b = <<>> THEN 0
  ELSE IF Head(a) = Head(b) THEN CompareCase(Tail(a), Tail(b))
  ELSE IF LowerChar(Head(a)) = Head(a) THEN -1 ELSE 1

\* a.localeCompare(b, 'de')
localeCompare(a, b) ==
  LET p == ComparePrimary(a, b) IN IF p # 0 THEN p ELSE CompareCase(a, b)

\* ------------------------------------------------------------------ inputs
Alice == <<"A","l","i","c","e">>
alice == <<"a","l","i","c","e">>
Bob   == <<"B","o","b">>
Carol == <<"C","a","r","o","l">>

\* A well-formed address and what a client may send instead of one.
Mail == <<"x","@","y",".","z">>

\* data.name of a set_name message, as sent.
RawNames ==
  { Alice, alice, <<" ">> \o Bob \o <<" ">>, Carol, <<" ">>,
    [i \in 1..(MaxNameLength + 1) |-> "A"] }

\* (data.name, data.email) of the set_name messages, as sent: every name
\* with a well-formed address, and one name with each kind of bad address.
SetNameInputs ==
  { <<n, <<" ">> \o Mail>> : n \in RawNames }
    \cup { <<Alice, <<"x","@","y">>>>, <<Alice, <<" "," ">>>> }

\* data.name of the remove_name messages, as sent.
RemoveNameInputs == { alice, <<" ">> \o Bob \o <<" ">>, Carol, <<" ">> }

\* The inputs of the documented scenarios.
ScenarioSetNameInputs == { <<n, Mail>> : n \in { Alice, Bob, Carol } }
ScenarioRemoveNameInputs == { Alice }
ScenarioConstraintFiles == { {}, { <<Alice, Bob>>, <<Bob, Alice>> } }

\* Names at the length limit and one character beyond it.
Name40 == [i \in 1..MaxNameLength |-> "A"]
Name41 == [i \in 1..(MaxNameLength + 1) |-> "A"]
LengthSetNameInputs ==
  { <<n, Mail>> :
      n \in { Name40, <<" ">> \o Name40 \o <<" ">>, Name41,
              <<" ">> \o Name41, Bob } }

\* The inputs of the email scenarios.
MailSetNameInputs == { <<n, Mail>> : n \in { Alice, Bob } }

\* Inbound frames that are no command, by what JSON.parse makes of them:
\* text that is no JSON, the JSON values that are no object, and objects
\* whose type is missing or is no command; type is the value of the type
\* property where there is one.
Frames ==
  { [json |-> j, type |-> Null] :
      j \in { "invalid", "null", "number", "string", "true", "array",
              "object" } }
    \cup { [json |-> "object", type |-> <<"p","i","n","g">>] }

\* NoCookie: the request carries no sessionId cookie.
NoCookie == 0

\* The sockets the server can hold at once (the ws objects).
Sockets == 1..(MaxMasters + MaxParticipants)

\* The lines of constraints.txt that parse (giver, receiver), as written in
\* the file: one file content per draw, since the file is re-read each time.
ConstraintFiles ==
  { {},
    { <<Alice, Bob>>, <<Bob, Alice>> },
    { <<Bob, Carol>> },
    { <<Bob, Bob>> } }

\* ------------------------------------------------------------------- state
VARIABLES
  participants,  \* Map ws -> {name, email, sessionId}, in insertion order
  masters,       \* Set of ws, in insertion order
  sessions,      \* Map sessionId -> {name, email, target}, in insertion order
  closing,       \* the ws whose readyState is no longer OPEN, close pending
  event,         \* the event whose handler has just run to completion and
                 \* whose output is leaving the process; NoEvent when idle
  sent,          \* what that handler passed to ws.send(), in order
  emailed,       \* the sendEmail(to, name, target) calls of that handler
  drawn,         \* the draw of that handler, if it ran one: what it
                 \* computed, committed and wrote to Lose.txt
  seen,          \* per session id, the target of the first your_target its
                 \* holder was sent on connecting; Null before that
  budget,        \* what the run may still use: the session ids that can
                 \* exist, the connections, claims and draws left, the
                 \* sockets that may be closing at once
  solver,        \* createDerangement run on its own: its inputs and progress
  mails          \* the sendEmail() promises that have not been tallied yet,
                 \* in the order of their calls

vars ==
  <<participants, masters, sessions, closing, event, sent, emailed, drawn,
    seen, budget, solver, mails>>

\* ----------------------------------------------------------- map utilities
\* The index of a key in an insertion-ordered map m (a sequence of entries),
\* 0 if absent.
RECURSIVE PIndex(_, _, _)
PIndex(m, ws, i) ==
  IF i > Len(m) THEN 0 ELSE IF m[i].ws = ws THEN i ELSE PIndex(m, ws, i + 1)

RECURSIVE SIndex(_, _, _)
SIndex(m, sid, i) ==
  IF i > Len(m) THEN 0
  ELSE IF m[i].sessionId = sid THEN i ELSE SIndex(m, sid, i + 1)

\* participants.has(ws), participants.get(ws)
PHas(ws) == PIndex(participants, ws, 1) # 0
PGet(ws) == participants[PIndex(participants, ws, 1)]

\* sessions.has(sid), sessions.get(sid) on a sessions map m
SHas(m, sid) == SIndex(m, sid, 1) # 0
SGet(m, sid) == m[SIndex(m, sid, 1)]

\* The role test as it would be if every connection passed it.
MHas_Any(ws) == TRUE

\* masters.has(ws)
MHas(ws) == \E i \in 1..Len(masters) : masters[i] = ws

\* The deletion as it would be if it deleted nothing.
RemoveAt_None(m, i) == m

\* Delete the entry at index i of a sequence.
RemoveAt(m, i) == SubSeq(m, 1, i - 1) \o SubSeq(m, i + 1, Len(m))

\* Every socket the server still holds.
Live == { participants[i].ws : i \in 1..Len(participants) }
          \cup { masters[i] : i \in 1..Len(masters) }

\* ---------------------------------------------------------------- messages
Message(type, code, text, sid, list) ==
  [type |-> type, code |-> code, text |-> text, sid |-> sid, list |-> list]

ErrorMsg(code) == Message("error", code, Null, NoCookie, <<>>)
NameOkMsg(name, sid) == Message("name_ok", "", name, sid, <<>>)
YourTargetMsg(target) == Message("your_target", "", target, NoCookie, <<>>)
ResetMsg == Message("reset", "", Null, NoCookie, <<>>)
DrawCompleteMsg == Message("draw_complete", "", Null, NoCookie, <<>>)
ParticipantsMsg(all) == Message("participants", "", Null, NoCookie, all)

\* send(ws, data) appended to the output out of the running handler.
send(out, ws, data) ==
  IF ws \in closing THEN out ELSE Append(out, [to |-> ws, msg |-> data])

\* broadcastToMasters(message)
RECURSIVE BroadcastFrom(_, _, _, _)
BroadcastFrom(out, ms, i, message) ==
  IF i > Len(ms) THEN out
  ELSE BroadcastFrom(send(out, ms[i], message), ms, i + 1, message)

broadcastToMasters(out, ms, message) == BroadcastFrom(out, ms, 1, message)

\* --------------------------------------------------------------- registry
\* Array.prototype.sort((a, b) => a.name.localeCompare(b.name, 'de')): a
\* stable insertion sort of a sequence of entries by their name.
RECURSIVE InsertSorted(_, _)
InsertSorted(sorted, x) ==
  IF sorted = <<>> THEN <<x>>
  ELSE IF localeCompare(x.name, sorted[Len(sorted)].name) >= 0
       THEN Append(sorted, x)
       ELSE Append(InsertSorted(SubSeq(sorted, 1, Len(sorted) - 1), x),
                   sorted[Len(sorted)])

RECURSIVE SortFrom(_, _, _)
SortFrom(sorted, a, i) ==
  IF i > Len(a) THEN sorted
  ELSE SortFrom(InsertSorted(sorted, a[i]), a, i + 1)

sortByName(a) == SortFrom(<<>>, a, 1)

\* names.sort((a, b) => a.localeCompare(b, 'de'))
sortNames(a) ==
  LET s == sortByName([i \in 1..Len(a) |-> [name |-> a[i]]])
  IN [i \in 1..Len(s) |-> s[i].name]

\* names.some(n => n.toLowerCase() === name.toLowerCase())
SomeEqualIgnoringCase(names, name) ==
  \E i \in 1..Len(names) : toLowerCase(names[i]) = toLowerCase(name)

RECURSIVE OnlineNamesFrom(_, _, _)
OnlineNamesFrom(names, ps, i) ==
  IF i > Len(ps) THEN names
  ELSE OnlineNamesFrom(
         IF Truthy(ps[i].name) THEN Append(names, ps[i].name) ELSE names,
         ps, i + 1)

RECURSIVE OfflineNamesFrom(_, _, _)
OfflineNamesFrom(names, ss, i) ==
  IF i > Len(ss) THEN names
  ELSE OfflineNamesFrom(
         IF /\ Truthy(ss[i].name) /\ Truthy(ss[i].email)
            /\ ~Truthy(ss[i].target)
            /\ ~SomeEqualIgnoringCase(names, ss[i].name)
         THEN Append(names, ss[i].name) ELSE names,
         ss, i + 1)

\* getParticipantNames as it would be without the !session.target test.
getParticipantNames_AnyTarget(ps, ss) ==
  sortNames(OfflineNamesFrom(OnlineNamesFrom(<<>>, ps, 1),
                             [i \in 1..Len(ss) |-> [ss[i] EXCEPT !.target = Null]],
                             1))

\* getParticipantNames() on the maps ps and ss
getParticipantNames(ps, ss) ==
  sortNames(OfflineNamesFrom(OnlineNamesFrom(<<>>, ps, 1), ss, 1))

\* participantMap of getAllParticipants: entries {key, name, email, online}
\* in insertion order; set() on a present key replaces the value in place.
RECURSIVE KIndex(_, _, _)
KIndex(m, key, i) ==
  IF i > Len(m) THEN 0 ELSE IF m[i].key = key THEN i ELSE KIndex(m, key, i + 1)

RECURSIVE AllOnlineFrom(_, _, _)
AllOnlineFrom(m, ps, i) ==
  IF i > Len(ps) THEN m
  ELSE LET p == ps[i]
           key == toLowerCase(p.name)
           e == [key |-> key, name |-> p.name, email |-> p.email,
                 online |-> TRUE]
           k == KIndex(m, key, 1)
       IN AllOnlineFrom(
            IF Truthy(p.name) /\ Truthy(p.email)
            THEN (IF k = 0 THEN Append(m, e) ELSE [m EXCEPT ![k] = e])
            ELSE m,
            ps, i + 1)

RECURSIVE AllOfflineFrom(_, _, _)
AllOfflineFrom(m, ss, i) ==
  IF i > Len(ss) THEN m
  ELSE LET s == ss[i]
           key == toLowerCase(s.name)
           k == KIndex(m, key, 1)
       IN AllOfflineFrom(
            IF Truthy(s.name) /\ Truthy(s.email) /\ ~Truthy(s.target)
            THEN (IF k = 0
                  THEN Append(m, [key |-> key, name |-> s.name,
                                  email |-> s.email, online |-> FALSE])
                  ELSE [m EXCEPT ![k].online = TRUE])
            ELSE m,
            ss, i + 1)

StripKey(m) ==
  [i \in 1..Len(m) |->
     [name |-> m[i].name, email |-> m[i].email, online |-> m[i].online]]

\* getAllParticipants() on the maps ps and ss
getAllParticipants(ps, ss) ==
  sortByName(StripKey(AllOfflineFrom(AllOnlineFrom(<<>>, ps, 1), ss, 1)))

\* isNameTaken as it would be if it looked at the live connections only.
isNameTaken_OnlineOnly(name) ==
  \E i \in 1..Len(participants) :
    /\ Truthy(participants[i].name)
    /\ toLowerCase(participants[i].name) = toLowerCase(name)

\* isNameTaken(name)
isNameTaken(name) ==
  LET nameLower == toLowerCase(name) IN
  \/ \E i \in 1..Len(participants) :
       /\ Truthy(participants[i].name)
       /\ toLowerCase(participants[i].name) = nameLower
  \/ \E i \in 1..Len(sessions) :
       /\ Truthy(sessions[i].name)
       /\ toLowerCase(sessions[i].name) = nameLower
       /\ ~Truthy(sessions[i].target)

\* isValidEmail(email): /^[^\s@]+@[^\s@]+\.[^\s@]+$/
isValidEmail(email) ==
  \E p, q \in 1..Len(email) :
    /\ email[p] = "@" /\ email[q] = "."
    /\ p >= 2 /\ q >= p + 2 /\ q <= Len(email) - 1
    /\ \A i \in 1..Len(email) :
         /\ ~IsSpace(email[i])
         /\ (i # p => email[i] # "@")

\* broadcastParticipantsUpdate() after the maps became ps and ss
broadcastParticipantsUpdate(out, ps, ss) ==
  broadcastToMasters(out, masters, ParticipantsMsg(getAllParticipants(ps, ss)))

\* ------------------------------------------------------------- constraints
\* readConstraintsFile(): the parsed lines, both sides lower-cased.
readConstraintsFile(file) ==
  { <<toLowerCase(line[1]), toLowerCase(line[2])>> : line \in file }

\* The key `${g}|${r}` of a pair in the banned set.
PairKey(g, r) == g \o <<"|">> \o r

\* buildBannedSet()
buildBannedSet(file) ==
  { PairKey(pair[1], pair[2]) : pair \in readConstraintsFile(file) }

\* ------------------------------------------------------------------ solver
Swap(a, i, j) == [a EXCEPT ![i] = a[j], ![j] = a[i]]

\* shuffle(array): every array the Fisher-Yates loop can return, the loop
\* index i running from the last position down to the second and j being
\* any position up to i.
RECURSIVE ShuffleFrom(_, _)
ShuffleFrom(a, i) ==
  IF i <= 1 THEN {a}
  ELSE UNION { ShuffleFrom(Swap(a, i, j), i - 1) : j \in 1..i }

shuffle(array) == ShuffleFrom(array, Len(array))

\* The validation loop as it would be without the look-up in bannedSet.
IsValidAttempt_NoBan(names, perm, bannedSet) ==
  \A i \in 1..Len(names) : perm[i] # names[i]

\* The validation loop as it would be without the self-assignment test.
IsValidAttempt_NoSelf(names, perm, bannedSet) ==
  \A i \in 1..Len(names) :
    PairKey(toLowerCase(names[i]), toLowerCase(perm[i])) \notin bannedSet

\* The validation loop of one attempt of createDerangement.
IsValidAttempt(names, perm, bannedSet) ==
  \A i \in 1..Len(names) :
    /\ perm[i] # names[i]
    /\ PairKey(toLowerCase(names[i]), toLowerCase(perm[i])) \notin bannedSet

\* The Map built from a valid attempt: map.set(names[i], perm[i]) for i
\* ascending, a later set() of the same key replacing the earlier value.
MapOf(names, perm) ==
  [n \in { names[i] : i \in 1..Len(names) } |->
     perm[CHOOSE i \in 1..Len(names) :
            /\ names[i] = n
            /\ \A k \in 1..Len(names) : names[k] = n => k <= i]]

NoMapping == [found |-> FALSE, map |-> <<>>]
Mapping(m) == [found |-> TRUE, map |-> m]

\* createDerangement(names, bannedSet): every value it can return. null
\* needs each of the attempts to fail, which the shuffles allow exactly when
\* some shuffle outcome is invalid.
createDerangement(names, bannedSet) ==
  IF Len(names) < 2 THEN { NoMapping }
  ELSE { Mapping(MapOf(names, perm)) :
           perm \in { q \in shuffle(names) :
                        IsValidAttempt(names, q, bannedSet) } }
       \cup
       (IF \E q \in shuffle(names) : ~IsValidAttempt(names, q, bannedSet)
        THEN { NoMapping } ELSE {})

\* ---------------------------------------------------------------- sockets
FreeSockets == Sockets \ Live

\* The ws object of the next accepted connection.
NewSocket == CHOOSE ws \in FreeSockets : \A o \in FreeSockets : ws <= o

UsedTokens ==
  { participants[i].sessionId : i \in 1..Len(participants) }
    \cup { sessions[i].sessionId : i \in 1..Len(sessions) }

FreshTokens == budget.tokens \ UsedTokens

\* generateSessionId(): a session id that is in use nowhere.
generateSessionId == CHOOSE t \in FreshTokens : \A o \in FreshTokens : t <= o

\* ------------------------------------------------------------ draw record
NoDraw ==
  [state |-> "none", by |-> 0, names |-> <<>>, bannedSet |-> {},
   mapping |-> <<>>, written |-> {}, file |-> <<>>]

\* The event a handler was called for.
Event(type, ws, name, email, cookie, file) ==
  [type |-> type, ws |-> ws, name |-> name, email |-> email,
   cookie |-> cookie, file |-> file]

NoEvent == Event("none", 0, Null, Null, NoCookie, {})

IdleSolver ==
  [pc |-> "idle", names |-> <<>>, file |-> {}, bannedSet |-> {},
   attempt |-> 0, result |-> NoMapping]

\* ------------------------------------------------------------------- Init
\* The server after start-up: no connection, no session.
Idle ==
  /\ participants = <<>>
  /\ masters = <<>>
  /\ sessions = <<>>
  /\ closing = {}
  /\ event = NoEvent
  /\ sent = <<>>
  /\ emailed = <<>>
  /\ drawn = NoDraw
  /\ mails = <<>>

Init ==
  /\ Idle
  /\ budget = [tokens |-> 1..MaxTokens, connects |-> MaxConnects,
               claims |-> MaxClaims, draws |-> MaxDraws, closing |-> MaxClosing,
               follow |-> FALSE]
  /\ seen = [t \in budget.tokens |-> Null]
  /\ solver = IdleSolver

\* ------------------------------------------------------------- connection
\* wss.on('connection') with role=master
ConnectMaster ==
  /\ event = NoEvent
  /\ Len(masters) < MaxMasters
  /\ event' = Event("connect_master", NewSocket, Null, Null, NoCookie, {})
  /\ budget.connects > 0
  /\ budget' = [budget EXCEPT !.connects = @ - 1]
  /\ LET ws == NewSocket IN
     /\ masters' = Append(masters, ws)
     /\ sent' = send(<<>>, ws,
                     ParticipantsMsg(getAllParticipants(participants, sessions)))
  /\ emailed' = <<>>
  /\ drawn' = NoDraw
  /\ UNCHANGED <<participants, sessions, closing, seen, solver, mails>>

\* wss.on('connection') with any other role; cookie is the sessionId of the
\* request's Cookie header, or NoCookie. A cookie naming a session id that is
\* in use nowhere gets the treatment of a generated id, so the cookies are
\* the ids in use.
ConnectParticipant(cookie) ==
  /\ event = NoEvent
  /\ Len(participants) < MaxParticipants
  /\ event' = Event("connect", NewSocket, Null, Null, cookie, {})
  /\ budget.connects > 0
  /\ budget' = [budget EXCEPT !.connects = @ - 1]
  /\ IF cookie = NoCookie THEN FreshTokens # {} ELSE cookie \in UsedTokens
  /\ LET ws == NewSocket
         found == cookie # NoCookie /\ SHas(sessions, cookie)
         sessionData == SGet(sessions, cookie)
         participantData ==
           [ws |-> ws,
            name |-> IF found THEN OrNull(sessionData.name) ELSE Null,
            email |-> IF found THEN OrNull(sessionData.email) ELSE Null,
            sessionId |-> IF cookie # NoCookie THEN cookie
                          ELSE generateSessionId]
     IN
     /\ participants' = Append(participants, participantData)
     /\ sent' =
          IF ~found THEN <<>>
          ELSE IF Truthy(sessionData.target)
               THEN send(<<>>, ws, YourTargetMsg(sessionData.target))
          ELSE IF Truthy(sessionData.name) /\ Truthy(sessionData.email)
               THEN send(<<>>, ws, NameOkMsg(sessionData.name, NoCookie))
          ELSE <<>>
     /\ seen' = IF found /\ Truthy(sessionData.target) /\ seen[cookie] = Null
                THEN [seen EXCEPT ![cookie] = sessionData.target]
                ELSE seen
  /\ emailed' = <<>>
  /\ drawn' = NoDraw
  /\ UNCHANGED <<masters, sessions, closing, solver, mails>>

\* ---------------------------------------------------------------- set_name
\* The length test as it would be with the limit one character lower.
TooLong_AtLimit(trimmed) == Len(trimmed) >= MaxNameLength

\* trimmed.length > 40
TooLong(trimmed) == Len(trimmed) > MaxNameLength

\* ws.on('message') with {type: 'set_name', name, email}, both strings.
SetName(ws, rawName, rawEmail) ==
  LET trimmed == trim(rawName)
      trimmedEmail == trim(rawEmail)
      code ==
        IF trimmed = <<>> THEN "name_empty"
        ELSE IF TooLong(trimmed) THEN "name_too_long"
        ELSE IF trimmedEmail = <<>> THEN "email_empty"
        ELSE IF ~isValidEmail(trimmedEmail) THEN "email_invalid"
        ELSE IF isNameTaken(trimmed) THEN "name_taken"
        ELSE IF ~PHas(ws) THEN "invalid_action"
        ELSE ""
      k == PIndex(participants, ws, 1)
      sid == participants[k].sessionId
      ps == [participants EXCEPT ![k].name = trimmed,
                                 ![k].email = trimmedEmail]
      j == SIndex(sessions, sid, 1)
      ss == IF j = 0
            THEN Append(sessions,
                        [sessionId |-> sid, name |-> trimmed,
                         email |-> trimmedEmail, target |-> Null])
            ELSE [sessions EXCEPT ![j].name = trimmed,
                                  ![j].email = trimmedEmail]
  IN
  /\ event = NoEvent
  /\ ws \in Live \ closing
  /\ event' = Event("set_name", ws, rawName, rawEmail, NoCookie, {})
  /\ IF code # ""
     THEN /\ sent' = send(<<>>, ws, ErrorMsg(code))
          /\ UNCHANGED <<participants, sessions, budget>>
     ELSE /\ budget.claims > 0
          /\ budget' = [budget EXCEPT !.claims = @ - 1]
          /\ participants' = ps
          /\ sessions' = ss
          /\ sent' = broadcastParticipantsUpdate(
                       send(<<>>, ws, NameOkMsg(trimmed, sid)), ps, ss)
  /\ emailed' = <<>>
  /\ drawn' = NoDraw
  /\ UNCHANGED <<masters, closing, seen, solver, mails>>

\* ------------------------------------------------------------- remove_name
NameMatches(name, targetLower) ==
  Truthy(name) /\ toLowerCase(name) = targetLower

\* The reset messages of the loop over participants.entries().
RECURSIVE ResetFrom(_, _, _, _)
ResetFrom(out, ps, i, targetLower) ==
  IF i > Len(ps) THEN out
  ELSE ResetFrom(
         IF NameMatches(ps[i].name, targetLower)
         THEN send(out, ps[i].ws, ResetMsg) ELSE out,
         ps, i + 1, targetLower)

\* The loop over sessions as it would be if it stopped at its first match.
SessionsAfterRemove_First(ss, targetLower) ==
  LET hits == { i \in 1..Len(ss) : NameMatches(ss[i].name, targetLower) } IN
  IF hits = {} THEN ss
  ELSE RemoveAt(ss, CHOOSE i \in hits : \A j \in hits : i <= j)

\* The sessions map after the loop that deletes from it.
SessionsAfterRemove(ss, targetLower) ==
  LET Keep(s) == ~NameMatches(s.name, targetLower) IN SelectSeq(ss, Keep)

\* ws.on('message') with {type: 'remove_name', name}, name a string.
RemoveName(ws, rawName) ==
  LET targetLower == toLowerCase(trim(rawName))
      ps == [i \in 1..Len(participants) |->
               IF NameMatches(participants[i].name, targetLower)
               THEN [participants[i] EXCEPT !.name = Null, !.email = Null]
               ELSE participants[i]]
      ss == SessionsAfterRemove(sessions, targetLower)
  IN
  /\ event = NoEvent
  /\ ws \in Live \ closing
  /\ event' = Event("remove_name", ws, rawName, Null, NoCookie, {})
  /\ IF MHas(ws)
     THEN /\ participants' = ps
          /\ sessions' = ss
          /\ sent' = broadcastParticipantsUpdate(
                       ResetFrom(<<>>, participants, 1, targetLower), ps, ss)
     ELSE /\ sent' = <<>>
          /\ UNCHANGED <<participants, sessions>>
  /\ emailed' = <<>>
  /\ drawn' = NoDraw
  /\ UNCHANGED <<masters, closing, budget, seen, solver, mails>>

\* -------------------------------------------------------------- start_draw
\* The loop over participants.entries(): acc is what the handler has done so
\* far (out: messages, ss: the sessions map, mails: sendEmail calls,
\* written: the session ids whose target it assigned).
RECURSIVE OnlineCommitFrom(_, _, _, _)
OnlineCommitFrom(acc, ps, i, mapping) ==
  IF i > Len(ps) THEN acc
  ELSE LET info == ps[i]
           hit == Truthy(info.name) /\ info.name \in DOMAIN mapping
           target == mapping[info.name]
           j == SIndex(acc.ss, info.sessionId, 1)
       IN OnlineCommitFrom(
            IF ~hit THEN acc
            ELSE [out |-> send(acc.out, info.ws, YourTargetMsg(target)),
                  ss |-> IF j # 0 THEN [acc.ss EXCEPT ![j].target = target]
                         ELSE acc.ss,
                  mails |-> IF Truthy(info.email)
                            THEN Append(acc.mails,
                                        [to |-> info.email, name |-> info.name,
                                         target |-> target])
                            ELSE acc.mails,
                  written |-> IF j # 0 THEN acc.written \cup {info.sessionId}
                              ELSE acc.written],
            ps, i + 1, mapping)

\* The loop over sessions.entries().
RECURSIVE OfflineCommitFrom(_, _, _)
OfflineCommitFrom(acc, i, mapping) ==
  IF i > Len(acc.ss) THEN acc
  ELSE LET session == acc.ss[i]
           hit == /\ Truthy(session.name) /\ Truthy(session.email)
                  /\ ~Truthy(session.target)
                  /\ session.name \in DOMAIN mapping
           target == mapping[session.name]
       IN OfflineCommitFrom(
            IF ~hit THEN acc
            ELSE [out |-> acc.out,
                  ss |-> [acc.ss EXCEPT ![i].target = target],
                  mails |-> Append(acc.mails,
                                   [to |-> session.email,
                                    name |-> session.name, target |-> target]),
                  written |-> acc.written \cup {session.sessionId}],
            i + 1, mapping)

\* Both commit loops of the start_draw handler.
Commit(mapping) ==
  OfflineCommitFrom(
    OnlineCommitFrom(
      [out |-> <<>>, ss |-> sessions, mails |-> <<>>, written |-> {}],
      participants, 1, mapping),
    1, mapping)

\* Array.from(mapping.entries()): the keys in the order of their first set().
RECURSIVE EntriesFrom(_, _, _, _)
EntriesFrom(entries, names, i, mapping) ==
  IF i > Len(names) THEN entries
  ELSE EntriesFrom(
         IF \E k \in 1..Len(entries) : entries[k].name = names[i]
         THEN entries
         ELSE Append(entries,
                     [name |-> names[i], target |-> mapping[names[i]]]),
         names, i + 1, mapping)

\* writeDistributionFile(mapping): the GEBER, EMPFAENGER lines of Lose.txt.
writeDistributionFile(names, mapping) ==
  sortByName(EntriesFrom(<<>>, names, 1, mapping))

\* emailPromises as they would be if the handler awaited every sendEmail().
Promises_Awaited(calls, batch) ==
  [i \in 1..Len(calls) |->
     [batch |-> batch, to |-> calls[i].to, name |-> calls[i].name,
      target |-> calls[i].target, state |-> "sent"]]

\* emailPromises of a draw: one pending promise per sendEmail() call, all
\* of them belonging to the Promise.all of that draw.
Promises(calls, batch) ==
  [i \in 1..Len(calls) |->
     [batch |-> batch, to |-> calls[i].to, name |-> calls[i].name,
      target |-> calls[i].target, state |-> "pending"]]

\* ws.on('message') with {type: 'start_draw'}; file is what constraints.txt
\* holds if the handler gets to read it, and the result is any value
\* createDerangement can return.
StartDraw(ws, file) ==
  LET names == getParticipantNames(participants, sessions)
      bannedSet == buildBannedSet(file)
      Failed(code, read) ==
        /\ event' = Event("start_draw", ws, Null, Null, NoCookie,
                          IF read THEN file ELSE {})
        /\ sent' = send(<<>>, ws, ErrorMsg(code))
        /\ emailed' = <<>>
        /\ drawn' = [NoDraw EXCEPT !.state = "failed", !.by = ws,
                                   !.names = names,
                                   !.bannedSet = IF read THEN bannedSet ELSE {}]
        /\ UNCHANGED <<sessions, budget, mails>>
  IN
  /\ event = NoEvent
  /\ ws \in Live \ closing
  /\ budget.draws > 0
  /\ IF ~MHas(ws)
     THEN /\ event' = Event("start_draw", ws, Null, Null, NoCookie, {})
          /\ sent' = <<>>
          /\ emailed' = <<>>
          /\ drawn' = NoDraw
          /\ UNCHANGED <<sessions, budget, mails>>
     ELSE IF Len(names) < 2
     THEN Failed("too_few", FALSE)
     ELSE \E result \in createDerangement(names, bannedSet) :
          IF ~result.found
          THEN Failed("no_distribution", TRUE)
          ELSE LET done == Commit(result.map) IN
               /\ event' = Event("start_draw", ws, Null, Null, NoCookie, file)
               /\ sessions' = done.ss
               /\ emailed' = done.mails
               /\ mails' = IF budget.follow
                            THEN mails \o Promises(done.mails, budget.draws)
                            ELSE mails
               /\ sent' = broadcastToMasters(done.out, masters, DrawCompleteMsg)
               /\ drawn' = [state |-> "committed", by |-> ws, names |-> names,
                            bannedSet |-> bannedSet, mapping |-> result.map,
                            written |-> done.written,
                            file |-> writeDistributionFile(names, result.map)]
               /\ budget' = [budget EXCEPT !.draws = @ - 1]
  /\ UNCHANGED <<participants, masters, closing, seen, solver>>

\* ------------------------------------------------------------------- close
\* The socket leaves the OPEN state (the peer's close frame arrived, or the
\* heartbeat called ws.terminate()); its 'close' event is still to come.
BeginClose(ws) ==
  /\ event = NoEvent
  /\ ws \in Live \ closing
  /\ Cardinality(closing) < budget.closing
  /\ closing' = closing \cup {ws}
  /\ UNCHANGED <<participants, masters, sessions, event, sent, emailed,
                 drawn, budget, seen, solver, mails>>

\* ws.on('close')
Close(ws) ==
  /\ event = NoEvent
  /\ ws \in Live
  /\ event' = Event("close", ws, Null, Null, NoCookie, {})
  /\ closing' = closing \ {ws}
  /\ IF MHas(ws)
     THEN /\ masters' = SelectSeq(masters, LAMBDA m : m # ws)
          /\ sent' = <<>>
          /\ UNCHANGED participants
     ELSE LET k == PIndex(participants, ws, 1)
              hadName == participants[k].name
              ps == RemoveAt(participants, k)
          IN
          /\ participants' = ps
          /\ masters' = masters
          /\ sent' = IF Truthy(hadName)
                     THEN BroadcastFrom(<<>>, masters, 1,
                            ParticipantsMsg(getAllParticipants(ps, sessions)))
                     ELSE <<>>
  /\ emailed' = <<>>
  /\ drawn' = NoDraw
  /\ UNCHANGED <<sessions, budget, seen, solver, mails>>

\* ------------------------------------------------------------------ frames
\* JSON.parse(raw.toString()) throws.
ParseThrows(frame) == frame.json = "invalid"

\* Reading data.type throws a TypeError: data is null.
TypeThrows(frame) == frame.json = "null"

\* data.type: undefined unless data is an object that has the property.
TypeOf(frame) == IF frame.json = "object" THEN frame.type ELSE Null

\* The types the handler's tests on data.type compare with.
CommandTypes ==
  { <<"s","e","t","_","n","a","m","e">>,
    <<"r","e","m","o","v","e","_","n","a","m","e">>,
    <<"s","t","a","r","t","_","d","r","a","w">> }

\* ws.on('message') with a frame that is no command. The parse error is
\* caught and the handler returns; no test on data.type matches a type that
\* is no command; the TypeError is caught nowhere, and the process exits
\* with it.
Frame(ws, frame) ==
  /\ event = NoEvent
  /\ ws \in Live \ closing
  /\ ParseThrows(frame) \/ TypeThrows(frame) \/ TypeOf(frame) \notin CommandTypes
  /\ event' = Event(IF ~ParseThrows(frame) /\ TypeThrows(frame)
                    THEN "frame_threw" ELSE "frame",
                    ws, Null, Null, NoCookie, {})
  /\ sent' = <<>>
  /\ emailed' = <<>>
  /\ drawn' = NoDraw
  /\ UNCHANGED <<participants, masters, sessions, closing, budget, seen,
                 solver, mails>>

\* ------------------------------------------------------------------ emails
\* A sendEmail() promise resolves, between two handlers: with true after
\* sendMail() succeeded, with false when there is no transporter or when
\* sendMail() threw.
EmailSettles(i, ok) ==
  /\ event = NoEvent
  /\ i \in 1..Len(mails)
  /\ mails[i].state = "pending"
  /\ mails' = [mails EXCEPT ![i].state = IF ok THEN "sent" ELSE "failed"]
  /\ UNCHANGED <<participants, masters, sessions, closing, event, sent,
                 emailed, drawn, budget, seen, solver>>

\* Promise.all(emailPromises).then(...): every promise of a draw has
\* resolved, the tally is logged and the promises are dropped.
EmailsTallied(batch) ==
  /\ event = NoEvent
  /\ \E i \in 1..Len(mails) : mails[i].batch = batch
  /\ \A i \in 1..Len(mails) :
       mails[i].batch = batch => mails[i].state # "pending"
  /\ mails' = SelectSeq(mails, LAMBDA m : m.batch # batch)
  /\ UNCHANGED <<participants, masters, sessions, closing, event, sent,
                 emailed, drawn, budget, seen, solver>>

\* The handler has returned and its output has left the process: the server
\* waits for the next event.
Return ==
  /\ event # NoEvent
  /\ event.type # "frame_threw"
  /\ event' = NoEvent
  /\ sent' = <<>>
  /\ emailed' = <<>>
  /\ drawn' = NoDraw
  /\ UNCHANGED <<participants, masters, sessions, closing, budget, seen,
                 solver, mails>>

\* -------------------------------------------------------------------- Next
Next ==
  \/ ConnectMaster
  \/ \E cookie \in budget.tokens \cup {NoCookie} : ConnectParticipant(cookie)
  \/ \E ws \in Sockets, in \in SetNameInputs : SetName(ws, in[1], in[2])
  \/ \E ws \in Sockets, n \in RemoveNameInputs : RemoveName(ws, n)
  \/ \E ws \in Sockets, file \in ConstraintFiles : StartDraw(ws, file)
  \/ \E ws \in Sockets : BeginClose(ws)
  \/ \E ws \in Sockets : Close(ws)
  \/ Return

Spec == Init /\ [][Next]_vars

\* ---------------------------------------------------------------- scenarios
\* The documented scenarios: the participants Alice, Bob and Carol, the
\* constraints of the README or none, every socket open until its close
\* event.
ScenarioInit ==
  /\ Idle
  /\ budget = [tokens |-> 1..ScenarioTokens, connects |-> ScenarioConnects,
               claims |-> ScenarioClaims, draws |-> ScenarioDraws, closing |-> 0,
               follow |-> FALSE]
  /\ seen = [t \in budget.tokens |-> Null]
  /\ solver = IdleSolver

ScenarioNext ==
  \/ ConnectMaster
  \/ \E cookie \in budget.tokens \cup {NoCookie} : ConnectParticipant(cookie)
  \/ \E ws \in Sockets, in \in ScenarioSetNameInputs :
       SetName(ws, in[1], in[2])
  \/ \E ws \in Sockets, n \in ScenarioRemoveNameInputs : RemoveName(ws, n)
  \/ \E ws \in Sockets, file \in ScenarioConstraintFiles : StartDraw(ws, file)
  \/ \E ws \in Sockets : Close(ws)
  \/ Return

\* The reconnect scenarios: no removal, no constraint.
ReconnectNext ==
  \/ ConnectMaster
  \/ \E cookie \in budget.tokens \cup {NoCookie} : ConnectParticipant(cookie)
  \/ \E ws \in Sockets, in \in ScenarioSetNameInputs :
       SetName(ws, in[1], in[2])
  \/ \E ws \in Sockets : StartDraw(ws, {})
  \/ \E ws \in Sockets : Close(ws)
  \/ Return

ScenarioSpec == ScenarioInit /\ [][ScenarioNext]_vars

ReconnectInit ==
  /\ Idle
  /\ budget = [tokens |-> 1..ReconnectTokens, connects |-> ReconnectConnects,
               claims |-> ReconnectClaims, draws |-> ReconnectDraws, closing |-> 0,
               follow |-> FALSE]
  /\ seen = [t \in budget.tokens |-> Null]
  /\ solver = IdleSolver

ReconnectSpec == ReconnectInit /\ [][ReconnectNext]_vars

\* The name-length scenarios: claims of names at and beyond the limit.
LengthInit ==
  /\ Idle
  /\ budget = [tokens |-> 1..LengthTokens, connects |-> LengthConnects,
               claims |-> LengthClaims, draws |-> 0, closing |-> 0,
               follow |-> FALSE]
  /\ seen = [t \in budget.tokens |-> Null]
  /\ solver = IdleSolver

LengthNext ==
  \/ ConnectMaster
  \/ \E cookie \in budget.tokens \cup {NoCookie} : ConnectParticipant(cookie)
  \/ \E ws \in Sockets, in \in LengthSetNameInputs :
       SetName(ws, in[1], in[2])
  \/ \E ws \in Sockets : Close(ws)
  \/ Return

LengthSpec == LengthInit /\ [][LengthNext]_vars

\* The email scenarios: the draws and what follows them while their emails
\* are under way.
MailInit ==
  /\ Idle
  /\ budget = [tokens |-> 1..MailTokens, connects |-> MailConnects,
               claims |-> MailClaims, draws |-> MailDraws, closing |-> 0,
               follow |-> TRUE]
  /\ seen = [t \in budget.tokens |-> Null]
  /\ solver = IdleSolver

MailNext ==
  \/ ConnectMaster
  \/ \E cookie \in budget.tokens \cup {NoCookie} : ConnectParticipant(cookie)
  \/ \E ws \in Sockets, in \in MailSetNameInputs :
       SetName(ws, in[1], in[2])
  \/ \E ws \in Sockets, n \in ScenarioRemoveNameInputs : RemoveName(ws, n)
  \/ \E ws \in Sockets : StartDraw(ws, {})
  \/ \E ws \in Sockets : Close(ws)
  \/ \E i \in 1..Len(mails), ok \in BOOLEAN : EmailSettles(i, ok)
  \/ \E batch \in 1..MailDraws : EmailsTallied(batch)
  \/ Return

MailSpec == MailInit /\ [][MailNext]_vars

\* The frame scenarios: participants and observers that send frames which
\* are no command.
FrameInit ==
  /\ Idle
  /\ budget = [tokens |-> 1..FrameTokens, connects |-> FrameConnects,
               claims |-> FrameClaims, draws |-> 0, closing |-> 0,
               follow |-> FALSE]
  /\ seen = [t \in budget.tokens |-> Null]
  /\ solver = IdleSolver

FrameNext ==
  \/ ConnectMaster
  \/ \E cookie \in budget.tokens \cup {NoCookie} : ConnectParticipant(cookie)
  \/ \E ws \in Sockets, in \in MailSetNameInputs :
       SetName(ws, in[1], in[2])
  \/ \E ws \in Sockets, frame \in Frames : Frame(ws, frame)
  \/ \E ws \in Sockets : Close(ws)
  \/ Return

FrameSpec == FrameInit /\ [][FrameNext]_vars

\* ------------------------------------------------------ the solver alone
SolverNames == { Alice, alice, Bob, Carol }

\* The lists of pairwise distinct names of a length up to MaxSolverNames.
SolverNameLists ==
  UNION { { l \in [1..k -> SolverNames] :
              \A i, j \in 1..k : l[i] = l[j] => i = j } :
          k \in 0..MaxSolverNames }

SolverInit ==
  /\ Idle
  /\ budget = [tokens |-> {}, connects |-> 0, claims |-> 0, draws |-> 0,
               closing |-> 0, follow |-> FALSE]
  /\ seen = <<>>
  /\ solver \in { [pc |-> "start", names |-> l, file |-> f,
                   bannedSet |-> buildBannedSet(f), attempt |-> 0,
                   result |-> NoMapping] :
                  l \in SolverNameLists, f \in ConstraintFiles }

Server == <<participants, masters, sessions, closing, event, sent, emailed,
            drawn, seen, budget, mails>>

\* if (names.length < 2) return null
SolverTooFew ==
  /\ solver.pc = "start"
  /\ Len(solver.names) < 2
  /\ solver' = [solver EXCEPT !.pc = "done", !.result = NoMapping]
  /\ UNCHANGED Server

\* One pass of the attempt loop: shuffle, validate, return the map if valid.
SolverAttempt ==
  /\ solver.pc \in {"start", "loop"}
  /\ Len(solver.names) >= 2
  /\ solver.attempt < MaxAttempts
  /\ \E perm \in shuffle(solver.names) :
       solver' =
         IF IsValidAttempt(solver.names, perm, solver.bannedSet)
         THEN [solver EXCEPT !.pc = "done",
                             !.result = Mapping(MapOf(solver.names, perm))]
         ELSE [solver EXCEPT !.pc = "loop", !.attempt = @ + 1]
  /\ UNCHANGED Server

\* The loop ends after the last attempt: return null.
SolverExhausted ==
  /\ solver.pc \in {"start", "loop"}
  /\ Len(solver.names) >= 2
  /\ solver.attempt >= MaxAttempts
  /\ solver' = [solver EXCEPT !.pc = "done", !.result = NoMapping]
  /\ UNCHANGED Server

SolverNext == SolverTooFew \/ SolverAttempt \/ SolverExhausted

SolverSpec == SolverInit /\ [][SolverNext]_vars

\* =================================================================== claims
\* Two names are the same name when they are equal ignoring case.
SameName(a, b) == toLowerCase(a) = toLowerCase(b)

\* The constraint file forbids giver -> receiver, compared ignoring case.
Forbids(file, giver, receiver) ==
  \E line \in file : SameName(line[1], giver) /\ SameName(line[2], receiver)

\* The session record stored under a session id, in a sessions map.
HasRecord(ss, sid) == \E i \in 1..Len(ss) : ss[i].sessionId = sid
RecordOf(ss, sid) == ss[CHOOSE i \in 1..Len(ss) : ss[i].sessionId = sid]

\* A live participant connection uses the session id.
Connected(sid) ==
  \E i \in 1..Len(participants) : participants[i].sessionId = sid

\* The last handler was a start_draw that committed a mapping.
DrawCommitted == event.type = "start_draw" /\ drawn.state = "committed"

EligibleNames == { drawn.names[i] : i \in 1..Len(drawn.names) }

\* The records whose target the draw assigned.
WrittenRecords ==
  { i \in 1..Len(sessions) : sessions[i].sessionId \in drawn.written }

\* C1: once a session record has a target, no step changes that target for
\* as long as the record exists; a further start_draw in particular never
\* writes another target into it.
C1_TargetNeverChanges ==
  [][\A i \in 1..Len(sessions) :
       (Truthy(sessions[i].target) /\ HasRecord(sessions', sessions[i].sessionId))
         => RecordOf(sessions', sessions[i].sessionId).target
              = sessions[i].target]_vars

\* C2: no two live participant connections hold the same name ignoring case,
\* and no live connection holds the name of an undrawn session record that is
\* stored under another session id.
C2_NamesUnique ==
  /\ \A i, j \in 1..Len(participants) :
       (i # j /\ Truthy(participants[i].name) /\ Truthy(participants[j].name))
         => ~SameName(participants[i].name, participants[j].name)
  /\ \A i \in 1..Len(participants), k \in 1..Len(sessions) :
       (/\ Truthy(participants[i].name)
        /\ Truthy(sessions[k].name)
        /\ ~Truthy(sessions[k].target)
        /\ sessions[k].sessionId # participants[i].sessionId)
         => ~SameName(participants[i].name, sessions[k].name)

\* C3: a session record that has a target never has its own name as target.
C3_NoSelfTarget ==
  \A i \in 1..Len(sessions) :
    Truthy(sessions[i].target) => sessions[i].target # sessions[i].name

\* C4: after a committed draw every eligible name has a record, written by
\* the draw, that carries the mapping's value for it, and every eligible
\* name is the target of exactly one of the records the draw wrote.
C4_CommittedBijection ==
  DrawCommitted =>
    /\ \A n \in EligibleNames :
         \E i \in WrittenRecords :
           sessions[i].name = n /\ sessions[i].target = drawn.mapping[n]
    /\ \A n \in EligibleNames :
         Cardinality({ i \in WrittenRecords : sessions[i].target = n }) = 1

\* C5: after a committed draw no record the draw wrote pairs its name with a
\* target that the constraint file read for that draw forbids.
C5_NoForbiddenPairCommitted ==
  DrawCommitted =>
    \A i \in WrittenRecords :
      <<toLowerCase(sessions[i].name), toLowerCase(sessions[i].target)>>
        \notin readConstraintsFile(event.file)

\* The solver has returned a mapping for a list of at least two names.
SolverReturnedMap ==
  solver.pc = "done" /\ solver.result.found /\ Len(solver.names) >= 2

SolverNameSet == { solver.names[i] : i \in 1..Len(solver.names) }

\* C6: for pairwise distinct names, at least two, createDerangement returns
\* null or a mapping that is a bijection of the names onto the names, maps
\* no name to itself and no name to a receiver the constraints forbid.
C6_SolverSound ==
  SolverReturnedMap =>
    LET m == solver.result.map IN
    /\ DOMAIN m = SolverNameSet
    /\ { m[n] : n \in SolverNameSet } = SolverNameSet
    /\ \A a, b \in SolverNameSet : m[a] = m[b] => a = b
    /\ \A n \in SolverNameSet : m[n] # n
    /\ \A n \in SolverNameSet : ~Forbids(solver.file, n, m[n])

\* C6 witness: a mapping of three names returned under a constraint that
\* rules out some derangement of them.
C6_Witness ==
  /\ SolverReturnedMap
  /\ Len(solver.names) = 3
  /\ solver.file # {}
  /\ solver.attempt > 0

\* The constraints of the README.
ReadmeConstraints == { <<Alice, Bob>>, <<Bob, Alice>> }

\* Exactly Alice, Bob and Carol are registered, each under a session record
\* of its own, and an observer's start_draw has just been handled with the
\* README's constraints in constraints.txt.
C7_Scenario ==
  /\ event.type = "start_draw"
  /\ MHas(event.ws)
  /\ drawn.names = <<Alice, Bob, Carol>>
  /\ event.file = ReadmeConstraints
  /\ Len(sessions) = 3
  /\ { sessions[i].name : i \in 1..Len(sessions) } = { Alice, Bob, Carol }

\* C7 as claimed: in the scenario the draw commits a bijection on the three
\* names without self-assignment and without Alice -> Bob or Bob -> Alice.
C7_ScenarioCommits ==
  C7_Scenario =>
    /\ drawn.state = "committed"
    /\ DOMAIN drawn.mapping = { Alice, Bob, Carol }
    /\ { drawn.mapping[n] : n \in { Alice, Bob, Carol } }
         = { Alice, Bob, Carol }
    /\ \A n \in { Alice, Bob, Carol } : drawn.mapping[n] # n
    /\ drawn.mapping[Alice] # Bob
    /\ drawn.mapping[Bob] # Alice

\* C7 amended: in the scenario no mapping is committed, since each of the two
\* derangements of three names contains Alice -> Bob or Bob -> Alice: the
\* draw fails, the observer alone is sent the error, the sessions map is left
\* as it was, no email is sent and Lose.txt is not written.
C7_ScenarioFails ==
  [][C7_Scenario' =>
       /\ drawn'.state = "failed"
       /\ sent' = <<[to |-> event'.ws, msg |-> ErrorMsg("no_distribution")]>>
       /\ sessions' = sessions
       /\ participants' = participants
       /\ emailed' = <<>>
       /\ drawn'.file = <<>>]_vars

\* C7 witness: the scenario's start_draw has been handled.
C7_Witness == C7_Scenario

\* C8: a participant who was sent a target on connecting with a session id is
\* sent your_target with the identical target on every later connection with
\* that session id.
C8_SameTargetOnReconnect ==
  (event.type = "connect" /\ event.cookie # NoCookie
     /\ seen[event.cookie] # Null)
    => sent = <<[to |-> event.ws, msg |-> YourTargetMsg(seen[event.cookie])]>>

\* The name is held by an active undrawn participant: by a live connection,
\* or by an undrawn session record whose owner is not connected.
HeldByActiveUndrawn(name) ==
  \/ \E i \in 1..Len(participants) :
       Truthy(participants[i].name) /\ SameName(participants[i].name, name)
  \/ \E k \in 1..Len(sessions) :
       /\ Truthy(sessions[k].name) /\ SameName(sessions[k].name, name)
       /\ ~Truthy(sessions[k].target)
       /\ ~Connected(sessions[k].sessionId)

\* C9: a set_name whose trimmed name is held by an active undrawn participant
\* is answered with one error, sent to the requesting connection and to
\* nobody else, and changes neither the participants nor the sessions map.
C9_TakenNameRejected ==
  [][(event'.type = "set_name" /\ HeldByActiveUndrawn(trim(event'.name)))
       => /\ Len(sent') = 1
          /\ sent'[1].to = event'.ws
          /\ sent'[1].msg.type = "error"
          /\ participants' = participants
          /\ sessions' = sessions]_vars

\* C9 witness: a set_name has just been rejected as taken although no live
\* connection holds the name: an undrawn record of a disconnected owner does.
C9_Witness ==
  /\ event.type = "set_name"
  /\ sent = <<[to |-> event.ws, msg |-> ErrorMsg("name_taken")]>>
  /\ \A i \in 1..Len(participants) :
       ~(Truthy(participants[i].name)
           /\ SameName(participants[i].name, trim(event.name)))
  /\ \E k \in 1..Len(sessions) :
       /\ SameName(sessions[k].name, trim(event.name))
       /\ sessions[k].name # trim(event.name)
       /\ ~Truthy(sessions[k].target)
       /\ ~Connected(sessions[k].sessionId)

\* C10: an observer's remove_name deletes exactly the undrawn records whose
\* name matches ignoring case; every record that has a target stays in place
\* unchanged.
C10_RemoveKeepsDrawn ==
  [][(event'.type = "remove_name" /\ MHas(event'.ws))
       => sessions' =
            SelectSeq(sessions,
                      LAMBDA r : Truthy(r.target)
                                   \/ ~SameName(r.name, trim(event'.name)))]_vars

\* A handler has just run: the step from the idle server to its outcome.
Handled == event = NoEvent /\ event' # NoEvent

\* The observers whose socket is open.
OpenObservers(ms, cl) == { ms[i] : i \in 1..Len(ms) } \ cl

\* The participants messages a handler's output holds for a socket.
ParticipantsMsgsTo(out, ws) ==
  SelectSeq(out, LAMBDA o : o.to = ws /\ o.msg.type = "participants")

\* C11: the most recent participants message of every connected observer
\* equals getAllParticipants(). Step by step: a handler whose output holds a
\* participants message for an open observer ends it with the projection of
\* the new state, and a handler that sends an open observer none leaves the
\* projection as that observer, connected before, last saw it.
C11_ObserversSeeProjection ==
  [][Handled =>
       \A m \in OpenObservers(masters', closing') :
         LET got == ParticipantsMsgsTo(sent', m) IN
         IF got # <<>>
         THEN got[Len(got)].msg
                = ParticipantsMsg(getAllParticipants(participants', sessions'))
         ELSE /\ MHas(m)
              /\ getAllParticipants(participants', sessions')
                   = getAllParticipants(participants, sessions)]_vars

\* How many names are eligible for a draw: every named live connection, and
\* every further name, ignoring case, of an undrawn session record that has
\* an address.
EligibleCount ==
  Cardinality({ i \in 1..Len(participants) : Truthy(participants[i].name) })
  + Cardinality(
      { toLowerCase(sessions[k].name) :
          k \in { j \in 1..Len(sessions) :
                    /\ Truthy(sessions[j].name) /\ Truthy(sessions[j].email)
                    /\ ~Truthy(sessions[j].target) } }
      \ { toLowerCase(participants[i].name) :
            i \in { j \in 1..Len(participants) :
                      Truthy(participants[j].name) } })

\* C12: an observer's start_draw that fails, for fewer than two eligible
\* names or for want of a solution, changes neither map, sends exactly one
\* message, an error to the requesting observer, queues no email and does
\* not write Lose.txt.
C12_FailedDrawIsNoOp ==
  [][(/\ Handled
      /\ event'.type = "start_draw"
      /\ MHas(event'.ws)
      /\ (EligibleCount < 2 \/ drawn'.state = "failed"))
       => /\ sessions' = sessions
          /\ participants' = participants
          /\ Len(sent') = 1
          /\ sent'[1].to = event'.ws
          /\ sent'[1].msg.type = "error"
          /\ emailed' = <<>>
          /\ drawn'.file = <<>>]_vars

\* C12 witness: a draw over two or more names has failed for want of a
\* solution while an undrawn session record was waiting for its target.
C12_Witness ==
  /\ event.type = "start_draw"
  /\ drawn.state = "failed"
  /\ Len(drawn.names) >= 2
  /\ sent = <<[to |-> event.ws, msg |-> ErrorMsg("no_distribution")]>>
  /\ \E k \in 1..Len(sessions) : ~Truthy(sessions[k].target)

\* Some live connection or some session record of the maps holds the name.
HeldAnywhere(ps, ss, name) ==
  \/ \E i \in 1..Len(ps) : Truthy(ps[i].name) /\ SameName(ps[i].name, name)
  \/ \E k \in 1..Len(ss) : Truthy(ss[k].name) /\ SameName(ss[k].name, name)

\* An observer's remove_name has just been handled.
RemoveHandled ==
  Handled /\ event'.type = "remove_name" /\ MHas(event'.ws)

\* C13: an observer's remove_name of a name that no live connection and no
\* session record holds changes neither map and sends nothing but the
\* participants message, with the content it would have had before, to the
\* observers; and after any observer's remove_name nobody holds the name, so
\* that the same remove_name applied again is such a removal of nothing.
C13_RemoveIdempotent ==
  [][RemoveHandled =>
       /\ ~HeldAnywhere(participants', sessions', trim(event'.name))
       /\ ~HeldAnywhere(participants, sessions, trim(event'.name)) =>
            /\ participants' = participants
            /\ sessions' = sessions
            /\ \A i \in 1..Len(sent') :
                 /\ MHas(sent'[i].to)
                 /\ sent'[i].msg
                      = ParticipantsMsg(getAllParticipants(participants,
                                                           sessions))]_vars

\* C13 witness: an observer's remove_name has reset a live connection and
\* left other session records in place.
C13_Witness ==
  /\ event.type = "remove_name"
  /\ MHas(event.ws)
  /\ \E i \in 1..Len(sent) : sent[i].msg = ResetMsg
  /\ sessions # <<>>

\* Exactly Alice and Bob are registered, each under a session record of its
\* own, and an observer's start_draw has just been handled with no
\* constraint in constraints.txt.
C14_Scenario ==
  /\ event.type = "start_draw"
  /\ MHas(event.ws)
  /\ drawn.names = <<Alice, Bob>>
  /\ event.file = {}
  /\ Len(sessions) = 2
  /\ { sessions[i].name : i \in 1..Len(sessions) } = { Alice, Bob }

\* The draw has committed Alice -> Bob and Bob -> Alice, in its mapping and
\* in the two session records.
C14_Committed ==
  /\ drawn.state = "committed"
  /\ drawn.mapping = (Alice :> Bob) @@ (Bob :> Alice)
  /\ \A i \in 1..Len(sessions) :
       sessions[i].target = IF sessions[i].name = Alice THEN Bob ELSE Alice

\* C14 as claimed: in the scenario the draw commits Alice -> Bob, Bob -> Alice.
C14_ScenarioCommits == C14_Scenario => C14_Committed

\* C14 amended: in the scenario the draw commits Alice -> Bob, Bob -> Alice
\* and nothing else, unless every one of the attempts shuffled the two names
\* into their own order: then it fails, the observer is sent the error and
\* the maps are left as they were.
C14_CommitsOrFails ==
  [][C14_Scenario' =>
       \/ C14_Committed'
       \/ /\ drawn'.state = "failed"
          /\ sent' = <<[to |-> event'.ws, msg |-> ErrorMsg("no_distribution")]>>
          /\ sessions' = sessions
          /\ participants' = participants
          /\ emailed' = <<>>]_vars

\* C14 witness: the scenario's draw has committed.
C14_Witness == C14_Scenario /\ C14_Committed

\* The requesting connection of the set_name just handled is a participant's
\* and the message carries a well-formed address and a name that no live
\* connection and no undrawn session record holds.
C15_ValidClaim ==
  /\ Handled
  /\ event'.type = "set_name"
  /\ PHas(event'.ws)
  /\ event'.email = Mail
  /\ ~HeldAnywhere(participants,
                   SelectSeq(sessions, LAMBDA r : ~Truthy(r.target)),
                   trim(event'.name))

\* C15: such a set_name is rejected with an error, both maps unchanged, when
\* the trimmed name has 41 characters or more; with 1 to 40 characters it is
\* accepted: the connection holds the trimmed name and the address, the
\* session record under the connection's session id holds them too, and the
\* connection is sent name_ok with the name and the session id.
C15_LengthLimit ==
  [][C15_ValidClaim =>
       LET ws == event'.ws
           name == trim(event'.name)
           sid == PGet(ws).sessionId
       IN
       IF Len(name) >= 41
       THEN /\ Len(sent') = 1
            /\ sent'[1].to = ws
            /\ sent'[1].msg.type = "error"
            /\ participants' = participants
            /\ sessions' = sessions
       ELSE Len(name) >= 1 =>
            /\ \E k \in 1..Len(participants') :
                 /\ participants'[k].ws = ws
                 /\ participants'[k].sessionId = sid
                 /\ participants'[k].name = name
                 /\ participants'[k].email = Mail
            /\ \E j \in 1..Len(sessions') :
                 /\ sessions'[j].sessionId = sid
                 /\ sessions'[j].name = name
                 /\ sessions'[j].email = Mail
            /\ sent' # <<>>
            /\ sent'[1] = [to |-> ws, msg |-> NameOkMsg(name, sid)]]_vars

\* C15 witness: a name of 40 characters, sent with a space on either side,
\* has been accepted.
C15_Witness ==
  /\ event.type = "set_name"
  /\ Len(event.name) = 42
  /\ sent # <<>>
  /\ sent[1].msg.type = "name_ok"
  /\ Len(sent[1].msg.text) = 40

\* C16: every your_target message a handler sends goes to a participant
\* connection and carries the target of the session record stored under that
\* connection's session id; none goes to an observer.
C16_TargetIsPrivate ==
  \A i \in 1..Len(sent) :
    sent[i].msg.type = "your_target" =>
      /\ ~MHas(sent[i].to)
      /\ PHas(sent[i].to)
      /\ SHas(sessions, PGet(sent[i].to).sessionId)
      /\ SGet(sessions, PGet(sent[i].to).sessionId).target = sent[i].msg.text

\* C17: a remove_name or start_draw sent over a participant's connection
\* changes neither map, sends no message to anyone, queues no email and runs
\* no draw.
C17_ParticipantCannotCommand ==
  [][(/\ Handled
      /\ event'.type \in {"remove_name", "start_draw"}
      /\ PHas(event'.ws))
       => /\ participants' = participants
          /\ sessions' = sessions
          /\ sent' = <<>>
          /\ emailed' = <<>>
          /\ drawn'.state = "none"]_vars

\* C17 witness: a participant has sent start_draw while an observer was
\* connected and two names were eligible.
C17_Witness ==
  /\ event.type = "start_draw"
  /\ PHas(event.ws)
  /\ masters # <<>>
  /\ EligibleCount >= 2

\* C18: the list getParticipantNames() returns never holds two entries that
\* are equal ignoring case.
C18_EligibleNamesDistinct ==
  LET names == getParticipantNames(participants, sessions) IN
  \A i, j \in 1..Len(names) : SameName(names[i], names[j]) => i = j

\* C19: the close of a participant's connection deletes that connection's
\* entry of the participants map and nothing else, leaves the sessions map
\* and the observers as they were, and sends every open observer the
\* participants message if the connection held a name, and nobody anything
\* if it held none.
C19_CloseKeepsSession ==
  [][(Handled /\ event'.type = "close" /\ PHas(event'.ws))
       => /\ sessions' = sessions
          /\ masters' = masters
          /\ participants'
               = SelectSeq(participants, LAMBDA p : p.ws # event'.ws)
          /\ \A i \in 1..Len(sent') :
               MHas(sent'[i].to) /\ sent'[i].msg.type = "participants"
          /\ \A m \in OpenObservers(masters, closing) :
               (ParticipantsMsgsTo(sent', m) # <<>>)
                 <=> Truthy(PGet(event'.ws).name)]_vars

\* C19 witness: a named participant's connection has closed after a draw:
\* the observer is sent the list and the drawn session record is in place.
C19_Witness ==
  /\ event.type = "close"
  /\ sent # <<>>
  /\ \E k \in 1..Len(sessions) :
       Truthy(sessions[k].target) /\ ~Connected(sessions[k].sessionId)

\* C20: every live participant connection that holds a name has a session
\* record stored under its session id, and that record holds the same name.
C20_LiveNameBacked ==
  \A i \in 1..Len(participants) :
    Truthy(participants[i].name) =>
      /\ SHas(sessions, participants[i].sessionId)
      /\ SGet(sessions, participants[i].sessionId).name = participants[i].name

\* C21: a committed draw has, by the time its handler returns, written the
\* targets and Lose.txt and sent draw_complete to every open observer while
\* every one of its emails is still under way; and a step in which an email
\* completes or fails, or a draw's emails are tallied, changes no map and
\* sends nobody anything.
C21_EmailDecoupled ==
  [][/\ (Handled /\ event'.type = "start_draw"
           /\ drawn'.state = "committed") =>
          /\ Len(mails') = Len(mails) + Len(emailed')
          /\ \A i \in 1..Len(emailed') :
               LET m == mails'[Len(mails) + i] IN
               /\ m.state = "pending"
               /\ m.to = emailed'[i].to
               /\ m.target = emailed'[i].target
          /\ \A k \in 1..Len(sessions') :
               sessions'[k].sessionId \in drawn'.written
                 => Truthy(sessions'[k].target)
          /\ drawn'.file # <<>>
          /\ \A o \in OpenObservers(masters', closing') :
               \E i \in 1..Len(sent') :
                 sent'[i] = [to |-> o, msg |-> DrawCompleteMsg]
     /\ (~Handled /\ mails' # mails) =>
          /\ sessions' = sessions
          /\ participants' = participants
          /\ masters' = masters
          /\ event' = NoEvent
          /\ sent' = <<>>]_vars

\* C21 witness: an email of a draw has failed after an observer removed the
\* name it was sent for, and the draw's other records keep their targets.
C21_Witness ==
  /\ event = NoEvent
  /\ \E i \in 1..Len(mails) :
       /\ mails[i].state = "failed"
       /\ \A k \in 1..Len(sessions) : sessions[k].name # mails[i].name
  /\ \E k \in 1..Len(sessions) : Truthy(sessions[k].target)

\* C22: a frame that is no command is dropped: its handler returns without
\* an error, sends nothing and changes none of the maps, and the connection
\* stays open.
C22_MalformedDropped ==
  [][(Handled /\ event'.type \in {"frame", "frame_threw"})
       => /\ event'.type = "frame"
          /\ sent' = <<>>
          /\ participants' = participants
          /\ masters' = masters
          /\ sessions' = sessions
          /\ event'.ws \in Live']_vars

====
